---- MODULE Spec2Model ----
(***************************************************************************)
(* Model of the realtime capture session (class AudioRecorder) of          *)
(* corti_playground: one session object, the WebSocket, MediaRecorder,     *)
(* microphone track, AudioContext and timers it drives, and the event      *)
(* sources that call back into it.  Every handler of the class is an       *)
(* operator from a session snapshot to the snapshot after the handler has  *)
(* run to completion (JavaScript runs one callback at a time); an action   *)
(* applies one handler to the current state.                               *)
(***************************************************************************)
EXTENDS Integers, Sequences, FiniteSets, TLC

VARIABLES
    mediaRecorder,   \* this.mediaRecorder: 0 = null, else index of the recorder object
    websocket,       \* this.websocket # null
    stream,          \* this.stream # null
    configAccepted,  \* this.configAccepted
    analyser,        \* this.analyser # null
    audioCtx,        \* this.audioCtx # null
    animFrameId,     \* this.animFrameId # null
    stopping,        \* this.stopping
    startPc,         \* position of start(): "new", "acquiring", "started", "failed" (no microphone), "aborted" (threw later)
    stopPc,          \* position of stop(): "idle", "wait200", "waitFlush", "waitGrace", "resolved", "threw"
    wsState,         \* readyState of the WebSocket object ("none" before it is constructed)
    wsWasOpen,       \* the WebSocket object has fired its open event
    wsOnMessage,     \* which closure is installed as websocket.onmessage
    timeout8,        \* the 8000 ms timer of the flush wait is pending
    resolved,        \* the local flag "resolved" of the flush wait
    recState,        \* state of every MediaRecorder object created, by index
    recQueued,       \* dataavailable events queued by requestData()/stop() per recorder
    rafPending,      \* an animation frame for the level tick is requested
    trackStops,      \* number of track.stop() calls on the microphone track
    ctxCloses,       \* number of audioCtx.close() calls
    sent,            \* everything sent on the channel, in order
    calls,           \* callback invocations, in order
    levelCalls,      \* number of onAudioLevel invocations
    cleanups,        \* number of times cleanup() has run
    acceptedSeen,    \* a CONFIG_ACCEPTED frame has been dispatched
    nMsgs,           \* inbound frames delivered so far
    nChunks,         \* timeslice chunks produced so far
    nTicks,          \* animation frames run so far
    appState,        \* page: appState
    pageError,       \* page: error (NoText = null)
    interactionId,   \* page: interactionId # null
    docPending,      \* page: the /api/document request of handleGenerateSummary is in flight
    generatedDoc,    \* page: generatedDoc # null
    requests,        \* page: the routes a document, coding or fact request has been sent to
    transcriptSegments,  \* page: transcriptSegments
    facts,               \* page: facts
    lastSegment,     \* per time range, the segment received last (none = no segment yet)
    lastFact,        \* per fact id, the fact received last (none = no fact yet)
    nBatches,        \* transcript and fact batches received so far
    nItems,          \* segments and facts received so far
    predictedCodes,  \* page: predictedCodes
    codesLoading,    \* page: codesLoading
    codesReply,      \* the /api/codes exchange of fetchCodes: its stage and the answer received
    docRequest,      \* document route: the request being answered (none = no request)
    docResponse      \* document route: its answer, with the context handed to the vendor

recorderVars == <<mediaRecorder, websocket, stream, configAccepted, analyser, audioCtx,
                  animFrameId, stopping, startPc, stopPc, wsState, wsWasOpen, wsOnMessage,
                  timeout8, resolved, recState, recQueued, rafPending, trackStops,
                  ctxCloses, sent, calls, levelCalls, cleanups, acceptedSeen, nMsgs, nChunks, nTicks,
                  appState, pageError, interactionId, docPending, generatedDoc, requests>>

viewVars == <<transcriptSegments, facts, lastSegment, lastFact, nBatches, nItems>>

codeVars == <<predictedCodes, codesLoading, codesReply>>

routeVars == <<docRequest, docResponse>>

vars == <<recorderVars, viewVars, codeVars, routeVars>>

\* ---------------------------------------------------------------- bounds
MaxMsgs == 2
MaxChunks == 1
MaxTicks == 1
MaxBatches == 2
MaxBatchLen == 2
MaxCodes == 2
MaxSegs == 2

\* ------------------------------------------------------------ vocabulary
NoText == ""

Frame(j, t, r, d, ti) == [json |-> j, type |-> t, reason |-> r, details |-> d, title |-> ti]

\* The frames the remote service may deliver (StreamMessage plus a frame that
\* is not JSON).
Inbound ==
    { Frame(TRUE, "CONFIG_ACCEPTED", NoText, NoText, NoText),
      Frame(TRUE, "CONFIG_DENIED", NoText, NoText, NoText),
      Frame(TRUE, "CONFIG_DENIED", "quota exceeded", NoText, NoText),
      Frame(TRUE, "transcript", NoText, NoText, NoText),
      Frame(TRUE, "facts", NoText, NoText, NoText),
      Frame(TRUE, "error", NoText, "rate limited", "Server error"),
      Frame(TRUE, "error", NoText, NoText, "Server error"),
      Frame(TRUE, "ENDED", NoText, NoText, NoText),
      Frame(TRUE, "flushed", NoText, NoText, NoText),
      Frame(TRUE, "usage", NoText, NoText, NoText),
      Frame(FALSE, "garbage", NoText, NoText, NoText) }

Range(q) == {q[i] : i \in DOMAIN q}

Count(q, x) == Cardinality({i \in DOMAIN q : q[i] = x})

\* no value yet
None == [none |-> TRUE]

\* the time ranges, texts and fact ids the remote service may send
SegTimes == {<<0, 1>>, <<0, 10>>, <<1, 10>>}

Texts == {"partial", "final"}

FactIds == {"f1", "f2"}

Segments == {[start |-> k[1], end |-> k[2], transcript |-> x] : k \in SegTimes, x \in Texts}

Facts == {[id |-> i, text |-> x] : i \in FactIds, x \in Texts}

\* the batches of at most MaxBatchLen items of U
Batches(U) == UNION {[1..n -> U] : n \in 0..MaxBatchLen}

\* JavaScript a || b on strings: the empty (or missing) string is falsy.
OrElse(a, b) == IF a = NoText THEN b ELSE a

\* ------------------------------------------------------ session snapshot
Cur ==
    [ mediaRecorder |-> mediaRecorder, websocket |-> websocket, stream |-> stream,
      configAccepted |-> configAccepted, analyser |-> analyser, audioCtx |-> audioCtx,
      animFrameId |-> animFrameId, stopping |-> stopping, stopPc |-> stopPc,
      wsState |-> wsState, wsWasOpen |-> wsWasOpen, wsOnMessage |-> wsOnMessage,
      timeout8 |-> timeout8, resolved |-> resolved, recState |-> recState, recQueued |-> recQueued,
      rafPending |-> rafPending, trackStops |-> trackStops, ctxCloses |-> ctxCloses,
      sent |-> sent, calls |-> calls, levelCalls |-> levelCalls, cleanups |-> cleanups ]

CommitSession(s) ==
    /\ mediaRecorder' = s.mediaRecorder
    /\ websocket' = s.websocket
    /\ stream' = s.stream
    /\ configAccepted' = s.configAccepted
    /\ analyser' = s.analyser
    /\ audioCtx' = s.audioCtx
    /\ animFrameId' = s.animFrameId
    /\ stopping' = s.stopping
    /\ stopPc' = s.stopPc
    /\ wsState' = s.wsState
    /\ wsWasOpen' = s.wsWasOpen
    /\ wsOnMessage' = s.wsOnMessage
    /\ timeout8' = s.timeout8
    /\ resolved' = s.resolved
    /\ recState' = s.recState
    /\ recQueued' = s.recQueued
    /\ rafPending' = s.rafPending
    /\ trackStops' = s.trackStops
    /\ ctxCloses' = s.ctxCloses
    /\ sent' = s.sent
    /\ calls' = s.calls
    /\ levelCalls' = s.levelCalls
    /\ cleanups' = s.cleanups

\* the callbacks the page hands to the recorder, applied to the page state p
\* for the invocations q in order: onSessionReady shows the recording state,
\* onError shows the message
RECURSIVE PageCallbacks(_, _)
PageCallbacks(p, q) ==
    IF q = <<>>
    THEN p
    ELSE LET c == Head(q)
         IN  PageCallbacks(IF c.cb = "onSessionReady" THEN [p EXCEPT !.appState = "recording"]
                           ELSE IF c.cb = "onError" THEN [p EXCEPT !.error = c.arg]
                           ELSE p,
                           Tail(q))

\* ----------------------------------------------- transcript and fact views
\* a JavaScript Map as the sequence of its entries in insertion order:
\* set() replaces the value of a key that is present, in place, and appends
\* an entry for a new key
MapSet(m, k, v) ==
    IF \E i \in DOMAIN m : m[i].key = k
    THEN [i \in DOMAIN m |-> IF m[i].key = k THEN [key |-> k, val |-> v] ELSE m[i]]
    ELSE Append(m, [key |-> k, val |-> v])

\* set() for every entry of q in order
RECURSIVE MapSetAll(_, _)
MapSetAll(m, q) ==
    IF q = <<>> THEN m ELSE MapSetAll(MapSet(m, Head(q).key, Head(q).val), Tail(q))

MapValues(m) == [i \in DOMAIN m |-> m[i].val]

\* variant: the key is the start time alone
SegmentKeyStartOnly(s) == ToString(s.start)

\* the template string `${start}-${end}`
SegmentKey(s) == ToString(s.start) \o "-" \o ToString(s.end)

\* variant: the values are left in the order of the map
SortByStartKeepsOrder(q) == q

\* Array.prototype.sort((a, b) => a.time.start - b.time.start): a stable sort
RECURSIVE SortByStart(_)
SortByStart(q) ==
    IF q = <<>>
    THEN <<>>
    ELSE LET x == q[Len(q)]
             front == SortByStart(SubSeq(q, 1, Len(q) - 1))
             n == Cardinality({i \in DOMAIN front : front[i].start <= x.start})
         IN  SubSeq(front, 1, n) \o <<x>> \o SubSeq(front, n + 1, Len(front))

\* the state updater of onTranscript
OnTranscript(prev, segments) ==
    LET map == MapSetAll(<<>>, [i \in DOMAIN prev |->
                                   [key |-> SegmentKey(prev[i]), val |-> prev[i]]])
        merged == MapSetAll(map, [i \in DOMAIN segments |->
                                   [key |-> SegmentKey(segments[i]), val |-> segments[i]]])
    IN  SortByStart(MapValues(merged))

\* variant: every new fact is appended
OnFactsAppendAll(prev, newFacts) == prev \o newFacts

\* the state updater of onFacts
OnFacts(prev, newFacts) ==
    LET map == MapSetAll(<<>>, [i \in DOMAIN prev |-> [key |-> prev[i].id, val |-> prev[i]]])
        merged == MapSetAll(map, [i \in DOMAIN newFacts |->
                                   [key |-> newFacts[i].id, val |-> newFacts[i]]])
    IN  MapValues(merged)

\* a handler of the session has run: the session fields, and the page state
\* after the callbacks the handler invoked
Commit(s) ==
    LET p == PageCallbacks([appState |-> appState, error |-> pageError],
                           SubSeq(s.calls, Len(calls) + 1, Len(s.calls)))
    IN  /\ CommitSession(s)
        /\ appState' = p.appState
        /\ pageError' = p.error
        /\ UNCHANGED <<interactionId, docPending, generatedDoc, requests>>

Callback(s, cb, arg) == [s EXCEPT !.calls = Append(@, [cb |-> cb, arg |-> arg])]

\* send() puts data on the wire only while the socket is OPEN.
WsSend(s, m) == IF s.wsState = "OPEN" THEN [s EXCEPT !.sent = Append(@, m)] ELSE s

\* websocket.close(): starts the closing handshake, or fails a socket that is
\* still connecting; no effect on a socket that is closing or closed.
WsClose(s) ==
    IF s.wsState \in {"CONNECTING", "OPEN"} THEN [s EXCEPT !.wsState = "CLOSING"] ELSE s

\* track.stop() on the microphone track.  A MediaRecorder whose tracks have
\* all ended stops by itself and queues its last dataavailable event.
StopTracks(s) ==
    [s EXCEPT !.trackStops = @ + 1,
              !.recState = [i \in DOMAIN @ |-> "inactive"],
              !.recQueued = [i \in DOMAIN @ |->
                                IF s.recState[i] = "recording" THEN @[i] + 1 ELSE @[i]]]

\* ------------------------------------------------------------- cleanup()
\* variant: the stream is dereferenced without stopping its tracks
CleanupDerefOnly(s) ==
    LET s1 == IF s.animFrameId
              THEN [s EXCEPT !.rafPending = FALSE, !.animFrameId = FALSE]
              ELSE s
        s3 == IF s1.audioCtx
              THEN [s1 EXCEPT !.ctxCloses = @ + 1, !.audioCtx = FALSE, !.analyser = FALSE]
              ELSE [s1 EXCEPT !.analyser = FALSE]
        s5 == [s3 EXCEPT !.stream = FALSE, !.mediaRecorder = 0]
        s6 == IF s5.websocket /\ s5.wsState # "CLOSED" THEN WsClose(s5) ELSE s5
    IN  [s6 EXCEPT !.websocket = FALSE, !.configAccepted = FALSE,
                   !.stopping = FALSE, !.cleanups = @ + 1]

\* variant: the stream and the context are released but the fields keep
\* pointing at them
CleanupKeepsHandles(s) ==
    LET s1 == IF s.animFrameId
              THEN [s EXCEPT !.rafPending = FALSE, !.animFrameId = FALSE]
              ELSE s
        s3 == IF s1.audioCtx
              THEN [s1 EXCEPT !.ctxCloses = @ + 1, !.analyser = FALSE]
              ELSE [s1 EXCEPT !.analyser = FALSE]
        s4 == IF s3.stream THEN StopTracks(s3) ELSE s3
        s5 == [s4 EXCEPT !.mediaRecorder = 0]
        s6 == IF s5.websocket /\ s5.wsState # "CLOSED" THEN WsClose(s5) ELSE s5
    IN  [s6 EXCEPT !.websocket = FALSE, !.configAccepted = FALSE,
                   !.stopping = FALSE, !.cleanups = @ + 1]

\* variant: the two flags are left as they are
CleanupKeepsFlags(s) ==
    LET s1 == IF s.animFrameId
              THEN [s EXCEPT !.rafPending = FALSE, !.animFrameId = FALSE]
              ELSE s
        s2 == [s1 EXCEPT !.analyser = FALSE]
        s3 == IF s2.audioCtx
              THEN [s2 EXCEPT !.ctxCloses = @ + 1, !.audioCtx = FALSE]
              ELSE s2
        s4 == IF s3.stream THEN StopTracks(s3) ELSE s3
        s5 == [s4 EXCEPT !.stream = FALSE, !.mediaRecorder = 0]
        s6 == IF s5.websocket /\ s5.wsState # "CLOSED" THEN WsClose(s5) ELSE s5
    IN  [s6 EXCEPT !.websocket = FALSE, !.cleanups = @ + 1]

Cleanup(s) ==
    LET s1 == IF s.animFrameId
              THEN [s EXCEPT !.rafPending = FALSE, !.animFrameId = FALSE]
              ELSE s
        s2 == [s1 EXCEPT !.analyser = FALSE]
        s3 == IF s2.audioCtx
              THEN [s2 EXCEPT !.ctxCloses = @ + 1, !.audioCtx = FALSE]
              ELSE s2
        s4 == IF s3.stream THEN StopTracks(s3) ELSE s3
        s5 == [s4 EXCEPT !.stream = FALSE, !.mediaRecorder = 0]
        s6 == IF s5.websocket /\ s5.wsState # "CLOSED" THEN WsClose(s5) ELSE s5
    IN  [s6 EXCEPT !.websocket = FALSE, !.configAccepted = FALSE,
                   !.stopping = FALSE, !.cleanups = @ + 1]

\* ------------------------------------------------------ startRecording()
StartRecording(s) ==
    IF ~s.stream \/ ~s.websocket
    THEN s
    ELSE [s EXCEPT !.recState = Append(@, "recording"),
                   !.recQueued = Append(@, 0),
                   !.mediaRecorder = Len(s.recState) + 1]

\* ------------------------------------------------- startLevelMonitoring()
\* variant: the level is reported only once the configuration is accepted
LevelTickGated(s) ==
    IF ~s.analyser
    THEN [s EXCEPT !.rafPending = FALSE]
    ELSE IF ~s.configAccepted
    THEN [s EXCEPT !.animFrameId = TRUE, !.rafPending = TRUE]
    ELSE [s EXCEPT !.levelCalls = @ + 1, !.animFrameId = TRUE, !.rafPending = TRUE]

\* the tick run by a requested animation frame: without analyser it returns
\* and requests no further frame, else it reports the level and requests the
\* next frame
LevelTick(s) ==
    IF ~s.analyser
    THEN [s EXCEPT !.rafPending = FALSE]
    ELSE [s EXCEPT !.levelCalls = @ + 1, !.animFrameId = TRUE, !.rafPending = TRUE]

\* ------------------------------------------------------- handleMessage()
\* variant: a denial is reported but the teardown is left to the close event
HandleMessageNoTeardown(s, m) ==
    CASE m.type = "CONFIG_ACCEPTED" ->
            Callback(StartRecording([s EXCEPT !.configAccepted = TRUE]),
                     "onSessionReady", NoText)
      [] m.type = "CONFIG_DENIED" ->
            Callback(s, "onError",
                     "Configuration denied: " \o OrElse(m.reason, "Unknown reason"))
      [] m.type = "transcript" -> Callback(s, "onTranscript", NoText)
      [] m.type = "facts" -> Callback(s, "onFacts", NoText)
      [] m.type = "error" -> Callback(s, "onError", OrElse(m.details, m.title))
      [] m.type = "ENDED" -> Callback(s, "onEnded", NoText)
      [] OTHER -> s

\* variant: a generic error message is treated as fatal
HandleMessageErrorFatal(s, m) ==
    CASE m.type = "CONFIG_ACCEPTED" ->
            Callback(StartRecording([s EXCEPT !.configAccepted = TRUE]),
                     "onSessionReady", NoText)
      [] m.type = "CONFIG_DENIED" ->
            Cleanup(Callback(s, "onError",
                             "Configuration denied: " \o OrElse(m.reason, "Unknown reason")))
      [] m.type = "transcript" -> Callback(s, "onTranscript", NoText)
      [] m.type = "facts" -> Callback(s, "onFacts", NoText)
      [] m.type = "error" -> Cleanup(Callback(s, "onError", OrElse(m.details, m.title)))
      [] m.type = "ENDED" -> Callback(s, "onEnded", NoText)
      [] OTHER -> s

\* variant: ENDED tears the session down
HandleMessageEndedTearsDown(s, m) ==
    CASE m.type = "CONFIG_ACCEPTED" ->
            Callback(StartRecording([s EXCEPT !.configAccepted = TRUE]),
                     "onSessionReady", NoText)
      [] m.type = "CONFIG_DENIED" ->
            Cleanup(Callback(s, "onError",
                             "Configuration denied: " \o OrElse(m.reason, "Unknown reason")))
      [] m.type = "transcript" -> Callback(s, "onTranscript", NoText)
      [] m.type = "facts" -> Callback(s, "onFacts", NoText)
      [] m.type = "error" -> Callback(s, "onError", OrElse(m.details, m.title))
      [] m.type = "ENDED" -> Cleanup(Callback(s, "onEnded", NoText))
      [] OTHER -> s

\* variant: the session is reported ready without a recorder being started
HandleMessageReadyWithoutRecorder(s, m) ==
    CASE m.type = "CONFIG_ACCEPTED" ->
            Callback([s EXCEPT !.configAccepted = TRUE], "onSessionReady", NoText)
      [] m.type = "CONFIG_DENIED" ->
            Cleanup(Callback(s, "onError",
                             "Configuration denied: " \o OrElse(m.reason, "Unknown reason")))
      [] m.type = "transcript" -> Callback(s, "onTranscript", NoText)
      [] m.type = "facts" -> Callback(s, "onFacts", NoText)
      [] m.type = "error" -> Callback(s, "onError", OrElse(m.details, m.title))
      [] m.type = "ENDED" -> Callback(s, "onEnded", NoText)
      [] OTHER -> s

HandleMessage(s, m) ==
    CASE m.type = "CONFIG_ACCEPTED" ->
            Callback(StartRecording([s EXCEPT !.configAccepted = TRUE]),
                     "onSessionReady", NoText)
      [] m.type = "CONFIG_DENIED" ->
            Cleanup(Callback(s, "onError",
                             "Configuration denied: " \o OrElse(m.reason, "Unknown reason")))
      [] m.type = "transcript" -> Callback(s, "onTranscript", NoText)
      [] m.type = "facts" -> Callback(s, "onFacts", NoText)
      [] m.type = "error" -> Callback(s, "onError", OrElse(m.details, m.title))
      [] m.type = "ENDED" -> Callback(s, "onEnded", NoText)
      [] OTHER -> s

\* ------------------------------------------- handlers installed by start()
\* variant: recording starts as soon as the channel opens, without waiting for
\* the acknowledgement
OnOpenEager(s) ==
    IF s.websocket
    THEN StartRecording([WsSend(s, "config") EXCEPT !.configAccepted = TRUE])
    ELSE s

\* variant: the configuration is not sent once a stop was requested
OnOpenUnlessStopping(s) ==
    IF s.websocket /\ ~s.stopping THEN WsSend(s, "config") ELSE s

OnOpen(s) == IF s.websocket THEN WsSend(s, "config") ELSE s

OnMessage(s, f) == IF f.json THEN HandleMessage(s, f) ELSE s

OnError(s) ==
    IF ~s.stopping THEN Callback(s, "onError", "WebSocket connection error") ELSE s

\* variant: an unclean close is reported whether or not the configuration
\* had been accepted
OnCloseAlwaysReports(s, wasClean) ==
    LET s1 == IF ~s.stopping /\ ~wasClean
              THEN Callback(s, "onError", "Connection lost unexpectedly")
              ELSE s
    IN  IF ~s1.stopping THEN Cleanup(s1) ELSE s1

\* variant: a clean close is left to stop()
OnCloseUncleanOnly(s, wasClean) ==
    LET s1 == IF ~s.stopping /\ ~wasClean /\ s.configAccepted
              THEN Callback(s, "onError", "Connection lost unexpectedly")
              ELSE s
    IN  IF ~s1.stopping /\ ~wasClean THEN Cleanup(s1) ELSE s1

OnClose(s, wasClean) ==
    LET s1 == IF ~s.stopping /\ ~wasClean /\ s.configAccepted
              THEN Callback(s, "onError", "Connection lost unexpectedly")
              ELSE s
    IN  IF ~s1.stopping THEN Cleanup(s1) ELSE s1

\* variant: the blob size is not looked at
OnDataAvailableAnySize(s, size) ==
    IF s.websocket /\ s.wsState = "OPEN" /\ s.configAccepted
    THEN WsSend(s, "audio")
    ELSE s

\* mediaRecorder.ondataavailable, installed by startRecording()
OnDataAvailable(s, size) ==
    IF size > 0 /\ s.websocket /\ s.wsState = "OPEN" /\ s.configAccepted
    THEN WsSend(s, "audio")
    ELSE s

\* ------------------------------------------------------------------ stop()
\* after the flush wait: send "end", start the 1000 ms grace wait
StopAfterFlush(s) ==
    LET s1 == IF s.websocket /\ s.wsState = "OPEN" THEN WsSend(s, "end") ELSE s
    IN  [s1 EXCEPT !.stopPc = "waitGrace"]

\* variant: resolve() continues stop() every time it is called
ResolveFlushWaitUnguarded(s) == StopAfterFlush([s EXCEPT !.resolved = TRUE])

\* resolve() of the flush wait, guarded by the local flag
ResolveFlushWait(s) ==
    IF ~s.resolved THEN StopAfterFlush([s EXCEPT !.resolved = TRUE]) ELSE s

\* from the channel check to the start of the flush wait
StopFlush(s) ==
    IF s.websocket /\ s.wsState = "OPEN"
    THEN LET s1 == WsSend(s, "flush")
             s2 == [s1 EXCEPT !.resolved = FALSE, !.timeout8 = TRUE, !.stopPc = "waitFlush"]
             s3 == IF s2.websocket THEN [s2 EXCEPT !.wsOnMessage = "flushWatch"] ELSE s2
         IN  IF ~s3.websocket \/ s3.wsState # "OPEN"
             THEN ResolveFlushWait([s3 EXCEPT !.timeout8 = FALSE])
             ELSE s3
    ELSE [s EXCEPT !.stopPc = "waitGrace"]

\* from the call of stop() to its first suspension
StopEntry(s) ==
    LET s1 == [s EXCEPT !.stopping = TRUE]
        s2 == IF s1.animFrameId
              THEN [s1 EXCEPT !.rafPending = FALSE, !.animFrameId = FALSE]
              ELSE s1
    IN  IF s2.mediaRecorder # 0 /\ s2.recState[s2.mediaRecorder] = "recording"
        THEN [s2 EXCEPT !.recQueued[s2.mediaRecorder] = @ + 1, !.stopPc = "wait200"]
        ELSE StopFlush(s2)

\* after the 200 ms wait: this.mediaRecorder.stop() dereferences the field
\* again; on null the async function ends by a TypeError
StopAfterRecorderWait(s) ==
    IF s.mediaRecorder = 0
    THEN [s EXCEPT !.stopPc = "threw"]
    ELSE LET r == s.mediaRecorder
             s1 == IF s.recState[r] = "recording"
                   THEN [s EXCEPT !.recState[r] = "inactive", !.recQueued[r] = @ + 1]
                   ELSE s
         IN  StopFlush(s1)

\* the 8000 ms timer callback
FlushTimeout(s) == ResolveFlushWait([s EXCEPT !.timeout8 = FALSE])

\* variant: the replacement handler dispatches but does not watch for "flushed"
OnMessageFlushWatchBlind(s, f) == IF f.json THEN HandleMessage(s, f) ELSE s

\* variant: the replacement handler only watches for "flushed"
OnMessageFlushWatchOnly(s, f) ==
    IF f.json /\ f.type = "flushed"
    THEN ResolveFlushWait([s EXCEPT !.timeout8 = FALSE])
    ELSE s

\* variant: a frame that does not parse ends the flush wait
OnMessageFlushWatchCatchEnds(s, f) ==
    IF ~f.json
    THEN ResolveFlushWait([s EXCEPT !.timeout8 = FALSE])
    ELSE LET s1 == HandleMessage(s, f)
         IN  IF f.type = "flushed"
             THEN ResolveFlushWait([s1 EXCEPT !.timeout8 = FALSE])
             ELSE s1

\* websocket.onmessage as replaced by stop() for the flush wait
OnMessageFlushWatch(s, f) ==
    IF ~f.json
    THEN s
    ELSE LET s1 == HandleMessage(s, f)
         IN  IF f.type = "flushed"
             THEN ResolveFlushWait([s1 EXCEPT !.timeout8 = FALSE])
             ELSE s1

\* after the 1000 ms wait
StopFinish(s) == [Cleanup(s) EXCEPT !.stopPc = "resolved"]

\* ------------------------------------------------------------------ Init
\* the state after the constructor
Init ==
    /\ mediaRecorder = 0
    /\ websocket = FALSE
    /\ stream = FALSE
    /\ configAccepted = FALSE
    /\ analyser = FALSE
    /\ audioCtx = FALSE
    /\ animFrameId = FALSE
    /\ stopping = FALSE
    /\ startPc = "new"
    /\ stopPc = "idle"
    /\ wsState = "none"
    /\ wsWasOpen = FALSE
    /\ wsOnMessage = "none"
    /\ timeout8 = FALSE
    /\ resolved = FALSE
    /\ recState = <<>>
    /\ recQueued = <<>>
    /\ rafPending = FALSE
    /\ trackStops = 0
    /\ ctxCloses = 0
    /\ sent = <<>>
    /\ calls = <<>>
    /\ levelCalls = 0
    /\ cleanups = 0
    /\ acceptedSeen = FALSE
    /\ nMsgs = 0
    /\ nChunks = 0
    /\ nTicks = 0
    /\ appState = "idle"
    /\ pageError = NoText
    /\ interactionId = FALSE
    /\ docPending = FALSE
    /\ generatedDoc = FALSE
    /\ requests = {}
    /\ transcriptSegments = <<>>
    /\ facts = <<>>
    /\ lastSegment = [k \in SegTimes |-> None]
    /\ lastFact = [k \in FactIds |-> None]
    /\ nBatches = 0
    /\ nItems = 0
    /\ predictedCodes = <<>>
    /\ codesLoading = FALSE
    /\ codesReply = [stage |-> "none", answer |-> None]
    /\ docRequest = None
    /\ docResponse = None

\* --------------------------------------------------------------- actions
\* the Start control: handleStartRecording up to the await of the session
\* request (one recording per run)
ClickStart ==
    /\ appState = "idle"
    /\ startPc = "new"
    /\ appState' = "connecting"
    /\ pageError' = NoText
    /\ generatedDoc' = FALSE
    /\ UNCHANGED <<mediaRecorder, websocket, stream, configAccepted, analyser, audioCtx,
                   animFrameId, stopping, startPc, stopPc, wsState, wsWasOpen, wsOnMessage,
                   timeout8, resolved, recState, recQueued, rafPending, trackStops,
                   ctxCloses, sent, calls, levelCalls, cleanups, acceptedSeen, nMsgs, nChunks, nTicks,
                   interactionId, docPending, requests>>
    /\ predictedCodes' = <<>>
    /\ UNCHANGED <<viewVars, codesLoading, codesReply, routeVars>>

\* the session request failed: the handler's catch
SessionFail ==
    /\ appState = "connecting"
    /\ startPc = "new"
    /\ appState' = "idle"
    /\ pageError' = "Failed to create session"
    /\ UNCHANGED <<mediaRecorder, websocket, stream, configAccepted, analyser, audioCtx,
                   animFrameId, stopping, startPc, stopPc, wsState, wsWasOpen, wsOnMessage,
                   timeout8, resolved, recState, recQueued, rafPending, trackStops,
                   ctxCloses, sent, calls, levelCalls, cleanups, acceptedSeen, nMsgs, nChunks, nTicks,
                   interactionId, docPending, generatedDoc, requests>>
    /\ UNCHANGED <<viewVars, codeVars, routeVars>>

\* the session request succeeded: the page keeps the interaction id, builds
\* the recorder and calls start(), which runs up to the await of getUserMedia
StartCall ==
    /\ appState = "connecting"
    /\ startPc = "new"
    /\ startPc' = "acquiring"
    /\ interactionId' = TRUE
    /\ CommitSession([Cur EXCEPT !.stopping = FALSE])
    /\ UNCHANGED <<acceptedSeen, nMsgs, nChunks, nTicks, appState, pageError, docPending, generatedDoc, requests>>
    /\ UNCHANGED <<viewVars, codeVars, routeVars>>

\* start() after getUserMedia resolved: analyser graph, level monitoring,
\* WebSocket construction and handler installation
StartAcquired(s) ==
    [s EXCEPT !.stream = TRUE, !.audioCtx = TRUE, !.analyser = TRUE,
              !.animFrameId = TRUE, !.rafPending = TRUE,
              !.websocket = TRUE, !.wsState = "CONNECTING", !.wsOnMessage = "general"]

MicGranted ==
    /\ startPc = "acquiring"
    /\ startPc' = "started"
    /\ Commit(StartAcquired(Cur))
    /\ UNCHANGED <<acceptedSeen, nMsgs, nChunks, nTicks>>
    /\ UNCHANGED <<viewVars, codeVars, routeVars>>

\* variant: the level task is started before the microphone is acquired, so a
\* failed acquisition leaves it running
MicDeniedLevelTaskLeft ==
    /\ startPc = "acquiring"
    /\ startPc' = "failed"
    /\ appState' = "idle"
    /\ pageError' = "Permission denied"
    /\ animFrameId' = TRUE
    /\ rafPending' = TRUE
    /\ UNCHANGED <<interactionId, docPending, generatedDoc, requests>>
    /\ UNCHANGED <<mediaRecorder, websocket, stream, configAccepted, analyser, audioCtx,
                   stopping, stopPc, wsState, wsWasOpen, wsOnMessage,
                   timeout8, resolved, recState, recQueued, trackStops,
                   ctxCloses, sent, calls, levelCalls, cleanups, acceptedSeen, nMsgs, nChunks, nTicks>>
    /\ UNCHANGED <<viewVars, codeVars, routeVars>>

\* getUserMedia rejected: start() rejects before touching anything else, and
\* the catch of handleStartRecording shows the message and the idle state
MicDenied ==
    /\ startPc = "acquiring"
    /\ startPc' = "failed"
    /\ appState' = "idle"
    /\ pageError' = "Permission denied"
    /\ UNCHANGED <<interactionId, docPending, generatedDoc, requests>>
    /\ UNCHANGED <<mediaRecorder, websocket, stream, configAccepted, analyser, audioCtx,
                   animFrameId, stopping, stopPc, wsState, wsWasOpen, wsOnMessage,
                   timeout8, resolved, recState, recQueued, rafPending, trackStops,
                   ctxCloses, sent, calls, levelCalls, cleanups, acceptedSeen, nMsgs, nChunks, nTicks>>
    /\ UNCHANGED <<viewVars, codeVars, routeVars>>

\* start() after getUserMedia resolved, up to a statement that throws: the
\* AudioContext constructor (line 52), or the WebSocket URL and constructor
\* (lines 60-62), which run after startLevelMonitoring()
StartAcquiredUpTo(s, at) ==
    IF at = "AudioContext"
    THEN [s EXCEPT !.stream = TRUE]
    ELSE [s EXCEPT !.stream = TRUE, !.audioCtx = TRUE, !.analyser = TRUE,
                   !.animFrameId = TRUE, !.rafPending = TRUE]

\* the microphone is granted and start() then throws: start() rejects into the
\* catch of handleStartRecording
StartThrowsOf(at) ==
    /\ startPc = "acquiring"
    /\ startPc' = "aborted"
    /\ CommitSession(StartAcquiredUpTo(Cur, at))
    /\ appState' = "idle"
    /\ pageError' = "Failed to start recording"
    /\ UNCHANGED <<acceptedSeen, nMsgs, nChunks, nTicks, interactionId, docPending, generatedDoc, requests>>
    /\ UNCHANGED <<viewVars, codeVars, routeVars>>

StartThrows == \E at \in {"AudioContext", "WebSocket"} : StartThrowsOf(at)

\* the open event of the socket
WsOpen ==
    /\ wsState = "CONNECTING"
    /\ Commit(OnOpen([Cur EXCEPT !.wsState = "OPEN", !.wsWasOpen = TRUE]))
    /\ UNCHANGED <<startPc, acceptedSeen, nMsgs, nChunks, nTicks>>
    /\ UNCHANGED <<viewVars, codeVars, routeVars>>

\* a message event carrying frame f; the browser delivers messages only while
\* readyState is OPEN
WsMessageOf(f) ==
    /\ wsState = "OPEN"
    /\ nMsgs < MaxMsgs
    /\ Commit(IF wsOnMessage = "flushWatch"
              THEN OnMessageFlushWatch(Cur, f)
              ELSE OnMessage(Cur, f))
    /\ acceptedSeen' = (acceptedSeen \/ (f.json /\ f.type = "CONFIG_ACCEPTED"))
    /\ nMsgs' = nMsgs + 1
    /\ UNCHANGED <<startPc, nChunks, nTicks>>
    /\ UNCHANGED <<viewVars, codeVars, routeVars>>

WsMessage == \E f \in Inbound : WsMessageOf(f)

\* the connection fails: readyState becomes CLOSED, then the error event and
\* the close event (wasClean = false) are fired in the same task
WsFail ==
    /\ wsState \in {"CONNECTING", "OPEN", "CLOSING"}
    /\ Commit(OnClose(OnError([Cur EXCEPT !.wsState = "CLOSED"]), FALSE))
    /\ UNCHANGED <<startPc, acceptedSeen, nMsgs, nChunks, nTicks>>
    /\ UNCHANGED <<viewVars, codeVars, routeVars>>

\* the connection is lost without a closing handshake: close event only,
\* wasClean = false
WsDrop ==
    /\ wsState \in {"OPEN", "CLOSING"}
    /\ wsWasOpen
    /\ Commit(OnClose([Cur EXCEPT !.wsState = "CLOSED"], FALSE))
    /\ UNCHANGED <<startPc, acceptedSeen, nMsgs, nChunks, nTicks>>
    /\ UNCHANGED <<viewVars, codeVars, routeVars>>

\* the closing handshake completes (started by either side): wasClean = true
WsCloseClean ==
    /\ wsState \in {"OPEN", "CLOSING"}
    /\ wsWasOpen
    /\ Commit(OnClose([Cur EXCEPT !.wsState = "CLOSED"], TRUE))
    /\ UNCHANGED <<startPc, acceptedSeen, nMsgs, nChunks, nTicks>>
    /\ UNCHANGED <<viewVars, codeVars, routeVars>>

\* recorder r emits a chunk of the given size on its 500 ms cadence
RecorderTimesliceOf(r, size) ==
    /\ nChunks < MaxChunks
    /\ recState[r] = "recording"
    /\ Commit(OnDataAvailable(Cur, size))
    /\ nChunks' = nChunks + 1
    /\ UNCHANGED <<startPc, acceptedSeen, nMsgs, nTicks>>
    /\ UNCHANGED <<viewVars, codeVars, routeVars>>

RecorderTimeslice ==
    \E r \in DOMAIN recState, size \in {0, 1} : RecorderTimesliceOf(r, size)

\* recorder r delivers a dataavailable event queued by requestData() or stop()
RecorderDataAvailableOf(r, size) ==
    /\ recQueued[r] > 0
    /\ Commit(OnDataAvailable([Cur EXCEPT !.recQueued[r] = @ - 1], size))
    /\ UNCHANGED <<startPc, acceptedSeen, nMsgs, nChunks, nTicks>>
    /\ UNCHANGED <<viewVars, codeVars, routeVars>>

RecorderDataAvailable ==
    \E r \in DOMAIN recState, size \in {0, 1} : RecorderDataAvailableOf(r, size)

\* variant: handleStopRecording shows the recorded state without awaiting stop()
StopCallNotAwaited ==
    /\ stopPc = "idle"
    /\ startPc # "new"
    /\ CommitSession(StopEntry(Cur))
    /\ appState' = "recorded"
    /\ UNCHANGED <<startPc, acceptedSeen, nMsgs, nChunks, nTicks,
                   pageError, interactionId, docPending, generatedDoc, requests>>
    /\ UNCHANGED <<viewVars, codeVars, routeVars>>

\* handleStopRecording up to its await: stop() is called (once per session,
\* any time after start() was called)
StopCall ==
    /\ stopPc = "idle"
    /\ startPc # "new"
    /\ CommitSession(StopEntry(Cur))
    /\ appState' = "stopping"
    /\ UNCHANGED <<startPc, acceptedSeen, nMsgs, nChunks, nTicks,
                   pageError, interactionId, docPending, generatedDoc, requests>>
    /\ UNCHANGED <<viewVars, codeVars, routeVars>>

\* the Stop control, rendered in the recording state only
ClickStop ==
    /\ appState = "recording"
    /\ StopCall

Timer200 ==
    /\ stopPc = "wait200"
    /\ Commit(StopAfterRecorderWait(Cur))
    /\ UNCHANGED <<startPc, acceptedSeen, nMsgs, nChunks, nTicks>>
    /\ UNCHANGED <<viewVars, codeVars, routeVars>>

Timer8000 ==
    /\ timeout8
    /\ Commit(FlushTimeout(Cur))
    /\ UNCHANGED <<startPc, acceptedSeen, nMsgs, nChunks, nTicks>>
    /\ UNCHANGED <<viewVars, codeVars, routeVars>>

\* the last wait of stop() ends: teardown, stop() resolves and
\* handleStopRecording continues
Timer1000 ==
    /\ stopPc = "waitGrace"
    /\ CommitSession(StopFinish(Cur))
    /\ appState' = "recorded"
    /\ UNCHANGED <<startPc, acceptedSeen, nMsgs, nChunks, nTicks,
                   pageError, interactionId, docPending, generatedDoc, requests>>
    /\ UNCHANGED <<viewVars, codeVars, routeVars>>

\* the display refresh runs the requested animation frame
Tick ==
    /\ rafPending
    /\ nTicks < MaxTicks
    /\ nTicks' = nTicks + 1
    /\ Commit(LevelTick(Cur))
    /\ UNCHANGED <<startPc, acceptedSeen, nMsgs, nChunks>>
    /\ UNCHANGED <<viewVars, codeVars, routeVars>>

\* the Generate Summary control (rendered in the recorded state):
\* handleGenerateSummary up to the await of the document request
ClickGenerate ==
    /\ appState = "recorded"
    /\ IF ~interactionId
       THEN UNCHANGED <<appState, pageError, docPending, requests>>
       ELSE /\ appState' = "generating"
            /\ pageError' = NoText
            /\ docPending' = TRUE
            /\ requests' = requests \cup {"/api/document"}
    /\ UNCHANGED <<mediaRecorder, websocket, stream, configAccepted, analyser, audioCtx,
                   animFrameId, stopping, startPc, stopPc, wsState, wsWasOpen, wsOnMessage,
                   timeout8, resolved, recState, recQueued, rafPending, trackStops,
                   ctxCloses, sent, calls, levelCalls, cleanups, acceptedSeen, nMsgs, nChunks, nTicks,
                   interactionId, generatedDoc>>
    /\ UNCHANGED <<viewVars, codeVars, routeVars>>

\* variant: the results are shown without storing the document
DocumentOkNotStoredOf(shape) ==
    /\ docPending
    /\ docPending' = FALSE
    /\ appState' = "results"
    /\ requests' = IF shape = "text"
                   THEN requests \cup {"/api/codes", "/api/facts"}
                   ELSE requests
    /\ UNCHANGED <<mediaRecorder, websocket, stream, configAccepted, analyser, audioCtx,
                   animFrameId, stopping, startPc, stopPc, wsState, wsWasOpen, wsOnMessage,
                   timeout8, resolved, recState, recQueued, rafPending, trackStops,
                   ctxCloses, sent, calls, levelCalls, cleanups, acceptedSeen, nMsgs, nChunks, nTicks,
                   pageError, interactionId, generatedDoc>>
    /\ UNCHANGED <<viewVars, codeVars, routeVars>>

\* the document request succeeded: the route answers a success with a document
\* that has a sections array, whose summary text is "text" or "blank". The
\* document is stored, the results are shown and, for a non-blank summary,
\* fetchCodes and fetchFacts send their requests
DocumentOkOf(shape) ==
    /\ docPending
    /\ docPending' = FALSE
    /\ generatedDoc' = TRUE
    /\ appState' = "results"
    /\ requests' = IF shape = "text"
                   THEN requests \cup {"/api/codes", "/api/facts"}
                   ELSE requests
    /\ UNCHANGED <<mediaRecorder, websocket, stream, configAccepted, analyser, audioCtx,
                   animFrameId, stopping, startPc, stopPc, wsState, wsWasOpen, wsOnMessage,
                   timeout8, resolved, recState, recQueued, rafPending, trackStops,
                   ctxCloses, sent, calls, levelCalls, cleanups, acceptedSeen, nMsgs, nChunks, nTicks,
                   pageError, interactionId>>
    /\ UNCHANGED <<viewVars, codeVars, routeVars>>

DocumentOk == \E shape \in {"text", "blank"} : DocumentOkOf(shape)

\* the document request failed: the catch shows the message and allows a retry
DocumentFail ==
    /\ docPending
    /\ docPending' = FALSE
    /\ appState' = "recorded"
    /\ pageError' = "Failed to generate document"
    /\ UNCHANGED <<mediaRecorder, websocket, stream, configAccepted, analyser, audioCtx,
                   animFrameId, stopping, startPc, stopPc, wsState, wsWasOpen, wsOnMessage,
                   timeout8, resolved, recState, recQueued, rafPending, trackStops,
                   ctxCloses, sent, calls, levelCalls, cleanups, acceptedSeen, nMsgs, nChunks, nTicks,
                   interactionId, generatedDoc, requests>>
    /\ UNCHANGED <<viewVars, codeVars, routeVars>>

\* the New Recording control of the results view (rendered when the results
\* state has a document): handleNewRecording
NewRecording ==
    /\ appState = "results"
    /\ generatedDoc
    /\ appState' = "idle"
    /\ interactionId' = FALSE
    /\ transcriptSegments' = <<>>
    /\ facts' = <<>>
    /\ generatedDoc' = FALSE
    /\ pageError' = NoText
    /\ UNCHANGED <<mediaRecorder, websocket, stream, configAccepted, analyser, audioCtx,
                   animFrameId, stopping, startPc, stopPc, wsState, wsWasOpen, wsOnMessage,
                   timeout8, resolved, recState, recQueued, rafPending, trackStops,
                   ctxCloses, sent, calls, levelCalls, cleanups, acceptedSeen, nMsgs, nChunks, nTicks,
                   docPending, requests>>
    /\ predictedCodes' = <<>>
    /\ codesLoading' = FALSE
    /\ UNCHANGED <<lastSegment, lastFact, nBatches, nItems, codesReply, routeVars>>

\* the capture session: the page's start and stop handlers drive the
\* recorder, stop() at any moment after start() was called
Next ==
    \/ ClickStart
    \/ SessionFail
    \/ StartCall
    \/ MicGranted
    \/ MicDenied
    \/ StartThrows
    \/ WsOpen
    \/ WsMessage
    \/ WsFail
    \/ WsDrop
    \/ WsCloseClean
    \/ RecorderTimeslice
    \/ RecorderDataAvailable
    \/ StopCall
    \/ Timer200
    \/ Timer8000
    \/ Timer1000
    \/ Tick

Spec == Init /\ [][Next]_vars

\* the page: every handler is invoked through the control the view renders
\* for it, and the recording is followed by the document requests
PageNext ==
    \/ ClickStart
    \/ SessionFail
    \/ StartCall
    \/ MicGranted
    \/ MicDenied
    \/ StartThrows
    \/ WsOpen
    \/ WsMessage
    \/ WsFail
    \/ WsDrop
    \/ WsCloseClean
    \/ RecorderTimeslice
    \/ RecorderDataAvailable
    \/ ClickStop
    \/ Timer200
    \/ Timer8000
    \/ Timer1000
    \/ Tick
    \/ ClickGenerate
    \/ DocumentOk
    \/ DocumentFail
    \/ NewRecording

PageSpec == Init /\ [][PageNext]_vars

\* the last item of batch b that satisfies P, or old when there is none
LastIn(b, P(_), old) ==
    LET hits == {i \in DOMAIN b : P(b[i])}
    IN  IF hits = {} THEN old ELSE b[CHOOSE i \in hits : \A j \in hits : j <= i]

\* onTranscript is invoked with batch b
TranscriptBatchOf(b) ==
    /\ nBatches < MaxBatches
    /\ nBatches' = nBatches + 1
    /\ nItems' = nItems + Len(b)
    /\ transcriptSegments' = OnTranscript(transcriptSegments, b)
    /\ lastSegment' = [k \in SegTimes |->
                          LET At(s) == s.start = k[1] /\ s.end = k[2]
                          IN  LastIn(b, At, lastSegment[k])]
    /\ UNCHANGED <<facts, lastFact>>
    /\ UNCHANGED <<recorderVars, codeVars, routeVars>>

TranscriptBatch == \E b \in Batches(Segments) : TranscriptBatchOf(b)

\* onFacts is invoked with batch b
FactBatchOf(b) ==
    /\ nBatches < MaxBatches
    /\ nBatches' = nBatches + 1
    /\ nItems' = nItems + Len(b)
    /\ facts' = OnFacts(facts, b)
    /\ lastFact' = [k \in FactIds |->
                       LET Has(f) == f.id = k
                       IN  LastIn(b, Has, lastFact[k])]
    /\ UNCHANGED <<transcriptSegments, lastSegment>>
    /\ UNCHANGED <<recorderVars, codeVars, routeVars>>

FactBatch == \E b \in Batches(Facts) : FactBatchOf(b)

\* the views: the page's callbacks applied to any sequence of batches
ViewNext == TranscriptBatch \/ FactBatch

ViewSpec == Init /\ [][ViewNext]_vars

\* --------------------------------------------------- predicted code list
\* the predicted codes the coding service may answer with: two code strings,
\* one of them with two display texts
CodeItems ==
    { [code |-> "A00", display |-> "d1"],
      [code |-> "A00", display |-> "d2"],
      [code |-> "B01", display |-> "d1"] }

CodeLists == UNION { [1..n -> CodeItems] : n \in 0..MaxCodes }

\* what may come back for the request of fetchCodes: a success whose body has
\* a codes and a candidates list, either of which may be missing; a status
\* that is not ok; no answer at all (fetch rejects); a body that is not JSON
CodeReplies ==
    { [kind |-> "ok", hasCodes |-> TRUE, codes |-> c, hasCandidates |-> TRUE, candidates |-> d] :
          c \in CodeLists, d \in CodeLists }
    \cup { [kind |-> "ok", hasCodes |-> FALSE, codes |-> <<>>, hasCandidates |-> TRUE, candidates |-> d] :
          d \in CodeLists }
    \cup { [kind |-> "ok", hasCodes |-> TRUE, codes |-> c, hasCandidates |-> FALSE, candidates |-> <<>>] :
          c \in CodeLists }
    \cup { [kind |-> "ok", hasCodes |-> FALSE, codes |-> <<>>, hasCandidates |-> FALSE, candidates |-> <<>>] }
    \cup { [kind |-> k] : k \in {"status", "network", "nojson"} }

\* variant: nothing is filtered out
DedupeByCodeNone(q, seen) == q

\* allCodes.filter(...) with the Set seen: the first item of every code string
RECURSIVE DedupeByCode(_, _)
DedupeByCode(q, seen) ==
    IF q = <<>>
    THEN <<>>
    ELSE IF Head(q).code \in seen
         THEN DedupeByCode(Tail(q), seen)
         ELSE <<Head(q)>> \o DedupeByCode(Tail(q), seen \cup {Head(q).code})

\* [...(data.codes || []), ...(data.candidates || [])]
AllCodes(data) ==
    (IF data.hasCodes THEN data.codes ELSE <<>>)
    \o (IF data.hasCandidates THEN data.candidates ELSE <<>>)

\* fetchCodes up to the await of its request
FetchCodes ==
    /\ codesReply.stage \in {"none", "settled"}
    /\ codesLoading' = TRUE
    /\ codesReply' = [stage |-> "sent", answer |-> None]
    /\ UNCHANGED predictedCodes
    /\ UNCHANGED <<recorderVars, viewVars, routeVars>>

\* the request of fetchCodes is answered with r
CodesAnswerOf(r) ==
    /\ codesReply' = [stage |-> "answered", answer |-> r]
    /\ UNCHANGED <<predictedCodes, codesLoading>>
    /\ UNCHANGED <<recorderVars, viewVars, routeVars>>

CodesAnswer ==
    /\ codesReply.stage = "sent"
    /\ \E r \in CodeReplies : CodesAnswerOf(r)

\* fetchCodes after the await: a success replaces the list by the codes
\* followed by the candidates without repeated code strings; everything else
\* is logged; the finally block clears the loading flag
CodesSettle ==
    /\ codesReply.stage = "answered"
    /\ predictedCodes' = IF codesReply.answer.kind = "ok"
                         THEN DedupeByCode(AllCodes(codesReply.answer), {})
                         ELSE predictedCodes
    /\ codesLoading' = FALSE
    /\ codesReply' = [codesReply EXCEPT !.stage = "settled"]
    /\ UNCHANGED <<recorderVars, viewVars, routeVars>>

CodeNext == FetchCodes \/ CodesAnswer \/ CodesSettle

\* the code list on its own: fetchCodes under every sequence of answers
CodeSpec == Init /\ [][CodeNext]_vars

\* -------------------------------------------------------- document route
\* text as the sequence of its characters; the fixed pieces of text the route
\* inserts are one element each
IsSpace(c) == c \in {" ", "\t", "\n"}

\* String.prototype.trim
RECURSIVE TrimStart(_)
TrimStart(cs) == IF cs # <<>> /\ IsSpace(Head(cs)) THEN TrimStart(Tail(cs)) ELSE cs

RECURSIVE TrimEnd(_)
TrimEnd(cs) ==
    IF cs # <<>> /\ IsSpace(cs[Len(cs)]) THEN TrimEnd(SubSeq(cs, 1, Len(cs) - 1)) ELSE cs

Trim(cs) == TrimEnd(TrimStart(cs))

\* Array.prototype.join
RECURSIVE Join(_, _)
Join(parts, sep) ==
    IF parts = <<>> THEN <<>>
    ELSE IF Len(parts) = 1 THEN parts[1]
    ELSE parts[1] \o sep \o Join(Tail(parts), sep)

\* the requests a client may post: a body that is not JSON, or a JSON body
\* with or without interactionId (NoText = missing or empty), with a
\* transcript array or none, and with additionalContext missing, a string or
\* a number
MaxStart == 1

RouteTexts == { <<"a">>, <<"b">>, <<" ">> }

RouteSegments == [final : BOOLEAN, start : 0..MaxStart, transcript : RouteTexts]

RouteTranscripts ==
    { [type |-> "array", items |-> q] : q \in UNION { [1..n -> RouteSegments] : n \in 0..MaxSegs } }
    \cup { [type |-> "undefined", items |-> <<>>] }

RouteContexts ==
    { [type |-> "string", text |-> cs] : cs \in { <<>>, <<" ">>, <<" ", "c", " ">> } }
    \cup { [type |-> "undefined", text |-> <<>>], [type |-> "number", text |-> <<>>] }

RouteRequests ==
    [json : {TRUE}, interactionId : {NoText, "i1"}, transcript : RouteTranscripts,
     additionalContext : RouteContexts]
    \cup { [json |-> FALSE, interactionId |-> NoText,
            transcript |-> [type |-> "undefined", items |-> <<>>],
            additionalContext |-> [type |-> "undefined", text |-> <<>>]] }

\* what client.documents.create may do
VendorOutcomes == {"document", "throws"}

\* NextResponse.json(..., { status }) together with the call of the vendor that
\* came before it: "none", or what it did, and the context it was handed
Answer(status, error, vendorCall, context) ==
    [status |-> status, error |-> error, vendorCall |-> vendorCall, context |-> context]

\* variant: the text of every segment, final or not
TranscriptTextAllSegments(items) ==
    Join([i \in DOMAIN SortByStart(items) |-> SortByStart(items)[i].transcript], <<" ">>)

\* transcript.filter((s) => s.final).sort(...).map((s) => s.transcript).join(" ")
TranscriptText(items) ==
    LET finals == SortByStart(SelectSeq(items, LAMBDA s : s.final))
    IN  Join([i \in DOMAIN finals |-> finals[i].transcript], <<" ">>)

\* contextParts.join("\n\n")
FullContext(additionalContext, transcriptText) ==
    LET given == /\ additionalContext.type = "string"
                 /\ additionalContext.text # <<>>
                 /\ Trim(additionalContext.text) # <<>>
        contextParts ==
            (IF given
             THEN << <<"Additional context: ">> \o Trim(additionalContext.text) >>
             ELSE <<>>)
            \o <<transcriptText>>
    IN  Join(contextParts, <<"\n\n">>)

\* variant: the transcript text is not examined before the vendor is called
POSTWithoutTextCheck(req, vendor) ==
    IF ~req.json THEN Answer(500, "Unexpected token", "none", <<>>)
    ELSE IF req.interactionId = NoText
    THEN Answer(400, "interactionId is required", "none", <<>>)
    ELSE IF req.transcript.type # "array"
    THEN Answer(500, "Cannot read properties of undefined", "none", <<>>)
    ELSE LET fullContext == FullContext(req.additionalContext,
                                        TranscriptText(req.transcript.items))
         IN  IF vendor = "throws"
             THEN Answer(500, "vendor error", "throws", fullContext)
             ELSE Answer(200, NoText, "document", fullContext)

\* the handler of the route; getCortiClient() hands out the process-wide vendor
\* client
POST(req, vendor) ==
    IF ~req.json THEN Answer(500, "Unexpected token", "none", <<>>)
    ELSE IF req.interactionId = NoText
    THEN Answer(400, "interactionId is required", "none", <<>>)
    ELSE IF req.transcript.type # "array"
    THEN Answer(500, "Cannot read properties of undefined", "none", <<>>)
    ELSE LET transcriptText == TranscriptText(req.transcript.items)
         IN  IF Trim(transcriptText) = <<>>
             THEN Answer(400, "No transcript content to summarize", "none", <<>>)
             ELSE LET fullContext == FullContext(req.additionalContext, transcriptText)
                  IN  IF vendor = "throws"
                      THEN Answer(500, "vendor error", "throws", fullContext)
                      ELSE Answer(200, NoText, "document", fullContext)

\* a client posts req and the route answers it (one request at a time)
DocumentPostOf(req, vendor) ==
    /\ docRequest' = req
    /\ docResponse' = POST(req, vendor)
    /\ UNCHANGED <<recorderVars, viewVars, codeVars>>

DocumentPost ==
    /\ docRequest = None
    /\ \E req \in RouteRequests, vendor \in VendorOutcomes : DocumentPostOf(req, vendor)

\* the answer is delivered; the route keeps nothing of a request
DocumentDelivered ==
    /\ docRequest # None
    /\ docRequest' = None
    /\ docResponse' = None
    /\ UNCHANGED <<recorderVars, viewVars, codeVars>>

RouteNext == DocumentPost \/ DocumentDelivered

\* the document route on its own, one request after the other
RouteSpec == Init /\ [][RouteNext]_vars

\* the page with its event loop running: as long as a task, an event or a
\* control is pending, one of them is eventually processed
PageFairSpec == PageSpec /\ WF_vars(PageNext)

\* timers fire: every pending timer of stop() eventually expires
FairSpec ==
    Spec /\ WF_vars(Timer200) /\ WF_vars(Timer8000) /\ WF_vars(Timer1000)

\* ================================================================ claims
\* what a step appended to a log
Added(old, new) == SubSeq(new, Len(old) + 1, Len(new))

ErrorCall(text) == [cb |-> "onError", arg |-> text]

\* ---------------------------------------------------------------- C1
\* C1: whatever the interleaving of channel-open, inbound-message, recorder
\* data-available and timer events, a step that sends an audio chunk is taken
\* with configAccepted true and after a CONFIG_ACCEPTED frame was dispatched.
C1_NoAudioBeforeAccepted ==
    [][ "audio" \in Range(Added(sent, sent')) => (configAccepted /\ acceptedSeen) ]_vars

\* an audio chunk went out while further frames may still arrive
C1_Witness == "audio" \in Range(sent) /\ wsState = "OPEN" /\ stopPc = "idle"

\* ---------------------------------------------------------------- C3
TornDown ==
    /\ (startPc = "started" => trackStops >= 1 /\ ctxCloses >= 1)
    /\ wsState \in {"none", "CLOSING", "CLOSED"}
    /\ ~rafPending /\ ~animFrameId
    /\ mediaRecorder = 0 /\ ~stream /\ ~analyser /\ ~audioCtx /\ ~websocket

\* C3: in the state right after any run of cleanup (from stop, from
\* CONFIG_DENIED, from a close event) the microphone track has been stopped,
\* the audio context closed, the channel is closing or closed, no animation
\* frame is requested and the session holds no recorder, stream, analyser,
\* context or channel handle.
C3_TeardownReleasesAll == [][ cleanups' > cleanups => TornDown' ]_vars

\* teardown by config denial, before acceptance and before any chunk
C3_Witness ==
    /\ cleanups = 1 /\ trackStops = 1 /\ ~acceptedSeen /\ stopPc = "idle"
    /\ ErrorCall("Configuration denied: quota exceeded") \in Range(calls)

\* ---------------------------------------------------------------- C2
\* C2: every call of stop() resolves: at any moment stop() has not been
\* called, or is suspended in one of its three timer-bounded waits, or has
\* resolved; it never ends in another way.
C2_StopAlwaysResolves ==
    stopPc \in {"idle", "wait200", "waitFlush", "waitGrace", "resolved"}

\* ---------------------------------------------------------------- C4
TransportEvent == WsFail \/ WsDrop \/ WsCloseClean

\* C4: once stop() has been called, no error or close event of the channel
\* invokes a callback, the events caused by the teardown's own close() included.
C4_NoTransportErrorAfterStop ==
    [][ (stopPc # "idle" /\ TransportEvent) => calls' = calls ]_vars

\* ---------------------------------------------------------------- C5
\* C5 as stated: an error or close event of the channel reaches the error
\* callback only while the session is not stopping and the configuration had
\* been accepted.
C5_TransportErrorOnlyAfterAccept ==
    [][ (TransportEvent /\ calls' # calls) => (~stopping /\ configAccepted) ]_vars

ConnectionError == ErrorCall("WebSocket connection error")
ConnectionLost == ErrorCall("Connection lost unexpectedly")

\* C5 amended: the close handler reports "Connection lost unexpectedly" only
\* for an unclean close handled with the intentional-stop flag false and
\* configAccepted true; the error handler reports "WebSocket connection error"
\* exactly when the flag is false, before acceptance too; a transport event
\* handled while the flag is set, a clean close, and a close without error
\* event before acceptance invoke no callback.
C5_TransportErrorReporting ==
    [][ TransportEvent =>
          LET new == Added(calls, calls') IN
          /\ Range(new) \subseteq {ConnectionError, ConnectionLost}
          /\ ConnectionLost \in Range(new) =>
                (~stopping /\ configAccepted /\ ~WsCloseClean)
          /\ ConnectionError \in Range(new) <=> (WsFail /\ ~stopping)
          /\ stopping => new = <<>>
          /\ WsCloseClean => new = <<>>
          /\ (WsDrop /\ ~configAccepted) => new = <<>> ]_vars

\* a connection failure during the handshake was reported, its close was not
C5_Witness ==
    /\ calls = <<ConnectionError>>
    /\ ~acceptedSeen /\ wsState = "CLOSED" /\ stopPc = "idle"

\* ---------------------------------------------------------------- C6
DenialFrames == {f \in Inbound : f.json /\ f.type = "CONFIG_DENIED"}

DenialText(f) ==
    IF f.reason = "quota exceeded"
    THEN "Configuration denied: quota exceeded"
    ELSE "Configuration denied: Unknown reason"

IsDenialCall(c) == c.cb = "onError" /\ c.arg \in {DenialText(f) : f \in DenialFrames}

\* a denial was dispatched before any acceptance
DeniedBeforeAccepted ==
    \E i \in DOMAIN calls :
        /\ IsDenialCall(calls[i])
        /\ \A j \in 1..(i - 1) : calls[j].cb # "onSessionReady"

\* C6: the step that dispatches CONFIG_DENIED before any CONFIG_ACCEPTED
\* invokes exactly one callback, onError with "Configuration denied: <reason>"
\* ("Unknown reason" without a reason), runs the whole teardown in that step
\* and sends nothing; from then on no recorder exists or is created and
\* nothing more is sent.
C6_DenialIsFatal ==
    [][ /\ \A f \in DenialFrames :
              (WsMessageOf(f) /\ ~acceptedSeen) =>
                  /\ calls' = Append(calls, ErrorCall(DenialText(f)))
                  /\ cleanups' = cleanups + 1
                  /\ TornDown'
                  /\ sent' = sent
                  /\ recState' = <<>>
        /\ DeniedBeforeAccepted => (recState = <<>> /\ recState' = <<>> /\ sent' = sent) ]_vars

\* a denial without reason, and the session went on to its close event
C6_Witness ==
    /\ ErrorCall("Configuration denied: Unknown reason") \in Range(calls)
    /\ DeniedBeforeAccepted
    /\ wsState = "CLOSED"

\* ---------------------------------------------------------------- C7
StopNotInProgress == stopPc \in {"idle", "resolved", "threw"}

\* C7: an unclean close with configAccepted true and no stop in progress ends
\* with the error callback "Connection lost unexpectedly" and one run of
\* cleanup; over the whole session the microphone track is stopped at most
\* once and the audio context closed at most once, however often cleanup runs.
C7_UncleanCloseTearsDownOnce ==
    [][ /\ ((WsFail \/ WsDrop) /\ configAccepted /\ StopNotInProgress) =>
              /\ calls' # calls
              /\ calls'[Len(calls')] = ConnectionLost
              /\ cleanups' = cleanups + 1
              /\ TornDown'
        /\ trackStops' <= 1
        /\ ctxCloses' <= 1 ]_vars

\* the close handler tore down, and the later stop() ran cleanup again
C7_Witness ==
    /\ ConnectionLost \in Range(calls)
    /\ stopPc = "resolved"
    /\ cleanups >= 2
    /\ trackStops = 1
    /\ ctxCloses = 1

\* ---------------------------------------------------------------- C8
\* C8: whatever was sent, the configuration message is the first message on
\* the wire, and it was sent exactly once if the channel has opened and not at
\* all otherwise (so no audio, flush or end precedes it).
C8_ConfigFirstAndOnce ==
    /\ sent # <<>> => sent[1] = "config"
    /\ Count(sent, "config") = (IF wsWasOpen THEN 1 ELSE 0)

\* stop() was called before the channel opened, then the channel opened
C8_Witness == sent = <<"config">> /\ stopPc = "waitGrace" /\ wsState = "OPEN"

\* ---------------------------------------------------------------- C9
\* C9: "flush" and "end" are each on the wire at most once, "end" only after
\* "flush", and the step that sends either finds the channel OPEN.
C9_FlushAndEndOnce ==
    [][ /\ Count(sent', "flush") <= 1
        /\ Count(sent', "end") <= 1
        /\ \A j \in DOMAIN sent' :
              sent'[j] = "end" => \E i \in 1..(j - 1) : sent'[i] = "flush"
        /\ (Range(Added(sent, sent')) \cap {"flush", "end"} # {}) =>
              (wsState = "OPEN" /\ websocket) ]_vars

\* both control messages went out and a further "flushed" can still arrive
C9_Witness ==
    /\ Count(sent, "flush") = 1 /\ Count(sent, "end") = 1
    /\ wsState = "OPEN" /\ nMsgs < MaxMsgs

\* --------------------------------------------------------------- C10
FlushedFrame == Frame(TRUE, "flushed", NoText, NoText, NoText)

ChannelOpen == websocket /\ wsState = "OPEN"

\* C10: while stop() is in the flush wait its 8 s timer is pending; the wait
\* ends only by a "flushed" frame or by that timer, whichever comes first.
\* On "flushed" the timer is cancelled and "end" is sent in the same step; on
\* expiry "end" is sent if the channel is still open and nothing otherwise.
C10_FlushWaitEnds ==
    [][ /\ stopPc' = "waitFlush" => (timeout8' /\ ~resolved' /\ "flush" \in Range(sent'))
        /\ (stopPc = "waitFlush" /\ stopPc' # "waitFlush") =>
              /\ WsMessageOf(FlushedFrame) \/ Timer8000
              /\ stopPc' = "waitGrace"
              /\ ~timeout8'
        /\ (stopPc = "waitFlush" /\ WsMessageOf(FlushedFrame)) =>
              /\ stopPc' = "waitGrace"
              /\ sent' = Append(sent, "end")
        /\ (stopPc = "waitFlush" /\ Timer8000) =>
              /\ stopPc' = "waitGrace"
              /\ sent' = (IF ChannelOpen THEN Append(sent, "end") ELSE sent) ]_vars

\* the wait has ended and "end" followed "flush"
C10_Witness ==
    /\ stopPc = "waitGrace" /\ ~timeout8 /\ resolved
    /\ Len(sent) >= 2
    /\ sent[Len(sent)] = "end" /\ sent[Len(sent) - 1] = "flush"

\* --------------------------------------------------------------- C11
TranscriptFrame == Frame(TRUE, "transcript", NoText, NoText, NoText)
FactsFrame == Frame(TRUE, "facts", NoText, NoText, NoText)

StopInProgress == stopPc \in {"wait200", "waitFlush", "waitGrace"}

\* C11: a transcript batch or fact batch delivered by the channel while
\* stop() is in progress (recorder wait, flush wait, grace wait) invokes
\* onTranscript, respectively onFacts, exactly once in that step and no other
\* callback.
C11_BatchesDeliveredDuringStop ==
    [][ StopInProgress =>
          /\ WsMessageOf(TranscriptFrame) =>
                calls' = Append(calls, [cb |-> "onTranscript", arg |-> NoText])
          /\ WsMessageOf(FactsFrame) =>
                calls' = Append(calls, [cb |-> "onFacts", arg |-> NoText]) ]_vars

\* both kinds of batch were delivered through the replacement handler while
\* the flush wait is still open
C11_Witness ==
    /\ stopPc = "waitFlush" /\ wsOnMessage = "flushWatch" /\ ~acceptedSeen
    /\ calls = <<[cb |-> "onTranscript", arg |-> NoText], [cb |-> "onFacts", arg |-> NoText]>>

\* --------------------------------------------------------------- C12
\* C12: when stop() found the recorder recording, the chunk it forced out
\* with requestData() has been handed to ondataavailable by the time stop()
\* sends "flush": no forced dataavailable event is still pending at the step
\* that ends the recorder wait and sends "flush".
C12_ForcedChunkBeforeFlush ==
    [][ (Timer200 /\ "flush" \in Range(Added(sent, sent'))) =>
            \A r \in DOMAIN recQueued : recQueued[r] = 0 ]_vars

\* --------------------------------------------------------------- C13
DataEvent(r, size) == RecorderTimesliceOf(r, size) \/ RecorderDataAvailableOf(r, size)

\* C13: the step in which a recorder produces a chunk puts exactly that chunk
\* on the wire if the chunk is non-empty, the channel is open and
\* configAccepted is true, and sends nothing otherwise; audio goes out in no
\* other step (nothing is queued for later); a session that holds no channel
\* handle (torn down) sends nothing.
C13_ChunkSentIffInWindow ==
    [][ /\ \A r \in DOMAIN recState, size \in {0, 1} :
              DataEvent(r, size) =>
                  sent' = (IF size > 0 /\ ChannelOpen /\ configAccepted
                           THEN Append(sent, "audio")
                           ELSE sent)
        /\ "audio" \in Range(Added(sent, sent')) =>
              /\ \E r \in DOMAIN recState : DataEvent(r, 1)
              /\ Added(sent, sent') = <<"audio">>
        /\ ~websocket => sent' = sent ]_vars

\* audio went out earlier; after the teardown every recorder is inactive and
\* its last dataavailable event has been delivered without a send
C13_Witness ==
    /\ cleanups >= 1 /\ ~websocket
    /\ Count(sent, "audio") = 1
    /\ recState = <<"inactive">> /\ recQueued = <<0>>
    /\ nChunks = MaxChunks

\* --------------------------------------------------------------- C14
\* two snapshots agree on everything but the count of cleanup runs
SameSession(a, b) == [a EXCEPT !.cleanups = 0] = [b EXCEPT !.cleanups = 0]

\* C14: in every reachable state, running cleanup right after cleanup changes
\* nothing (no field, no further track stop or context close, nothing sent),
\* and cleanup on a session whose start() never got the microphone and on
\* which stop() was not called changes nothing either.
C14_CleanupIdempotent ==
    /\ SameSession(Cleanup(Cleanup(Cur)), Cleanup(Cur))
    /\ (startPc \in {"new", "failed"} /\ stopPc = "idle") => SameSession(Cleanup(Cur), Cur)

\* cleanup has run three times in one session (CONFIG_DENIED, close event,
\* stop()) and released once
C14_Witness ==
    /\ cleanups = 3 /\ trackStops = 1 /\ ctxCloses = 1
    /\ stopPc = "resolved" /\ wsState = "CLOSED"

\* --------------------------------------------------------------- C15
ErrorFrames == {f \in Inbound : f.json /\ f.type = "error"}

ErrorText(f) == IF f.details = "rate limited" THEN "rate limited" ELSE "Server error"

\* C15: the step that dispatches a generic "error" message invokes onError
\* once, with the details or, when the details are empty, with the title, and
\* changes nothing else: no teardown, same channel state, same configAccepted,
\* same recorder, nothing sent (so later chunks go out as before).
C15_ErrorMessageNotFatal ==
    [][ \A f \in ErrorFrames :
           WsMessageOf(f) =>
              /\ calls' = Append(calls, ErrorCall(ErrorText(f)))
              /\ UNCHANGED <<mediaRecorder, websocket, stream, configAccepted, analyser,
                             audioCtx, animFrameId, stopping, startPc, stopPc, wsState,
                             wsWasOpen, wsOnMessage, timeout8, resolved, recState,
                             recQueued, rafPending, trackStops, ctxCloses, sent,
                             levelCalls, cleanups, acceptedSeen, nChunks, nTicks>> ]_vars

\* an error message without details was the last callback; the session still
\* streams and has sent audio
C15_Witness ==
    /\ calls # <<>> /\ calls[Len(calls)] = ErrorCall("Server error")
    /\ ChannelOpen /\ configAccepted /\ mediaRecorder # 0
    /\ "audio" \in Range(sent)

\* --------------------------------------------------------------- C16
\* C16: the audio-level callback is invoked only while stop() has not been
\* called and no teardown has run.
C16_NoLevelAfterStop ==
    [][ levelCalls' > levelCalls => (stopPc = "idle" /\ cleanups = 0) ]_vars

\* --------------------------------------------------------------- C17
\* C17: when the microphone acquisition fails, start() fails, the page shows
\* the idle state with the error message, the session never has a channel, a
\* stream or a level task, and nothing starts it again.
C17_MicFailureAborts ==
    [][ /\ MicDenied =>
              (startPc' = "failed" /\ appState' = "idle" /\ pageError' = "Permission denied")
        /\ startPc' = "failed" =>
              /\ wsState' = "none" /\ ~websocket' /\ ~stream'
              /\ ~rafPending' /\ ~animFrameId' /\ levelCalls' = 0
              /\ sent' = <<>>
        /\ startPc = "failed" => startPc' = "failed" ]_vars

C17_Witness ==
    /\ startPc = "failed" /\ stopPc = "idle"
    /\ appState = "idle" /\ pageError = "Permission denied"
    /\ wsState = "none" /\ ~rafPending

\* --------------------------------------------------------------- C20
\* a step in which the page sends a document, coding or fact request
SendsRequest == (ClickGenerate /\ interactionId) \/ DocumentOkOf("text")

\* C20: the page sends a request to the document, coding or fact route only
\* when stop() of the recorder has resolved and the session is torn down: no
\* stream, channel, recorder, analyser or level task is left.
C20_RequestsOnlyAfterStop ==
    [][ (SendsRequest \/ requests' # requests) =>
            /\ stopPc = "resolved"
            /\ TornDown
            /\ \A r \in DOMAIN recState : recState[r] = "inactive" ]_vars

C20_Witness ==
    /\ requests = {"/api/document", "/api/codes", "/api/facts"}
    /\ appState = "results"
    /\ stopPc = "resolved"
    /\ "audio" \in Range(sent)

C19_FactsLastWriteWins ==
    [][ /\ \A i, j \in DOMAIN facts' : facts'[i].id = facts'[j].id => i = j
        /\ \A k \in FactIds :
              IF lastFact'[k] = None
              THEN \A i \in DOMAIN facts' : facts'[i].id # k
              ELSE lastFact'[k] \in Range(facts')
        /\ \A i \in DOMAIN facts :
              i \in DOMAIN facts' /\ facts'[i].id = facts[i].id ]_vars

\* f1 is revised after f2 was listed and keeps the first position
C19_Witness ==
    /\ nBatches = 2 /\ nItems = 3 /\ transcriptSegments = <<>>
    /\ facts = <<[id |-> "f1", text |-> "final"], [id |-> "f2", text |-> "partial"]>>

\* --------------------------------------------------------------- C21
\* C21: in the state right after any run of cleanup, configAccepted and the
\* stopping flag are both false, whatever they were before.
C21_TeardownResetsFlags ==
    [][ cleanups' > cleanups => (~configAccepted' /\ ~stopping') ]_vars

\* the only cleanup so far is the one of a stop() of an accepted session: both
\* flags were true when it ran
C21_Witness ==
    /\ cleanups = 1 /\ stopPc = "resolved" /\ acceptedSeen
    /\ ~configAccepted /\ ~stopping

\* --------------------------------------------------------------- C22
EndedFrame == Frame(TRUE, "ENDED", NoText, NoText, NoText)
UsageFrame == Frame(TRUE, "usage", NoText, NoText, NoText)

\* everything but the callback log and the count of delivered frames
quietVars ==
    <<mediaRecorder, websocket, stream, configAccepted, analyser, audioCtx,
      animFrameId, stopping, startPc, stopPc, wsState, wsWasOpen, wsOnMessage,
      timeout8, resolved, recState, recQueued, rafPending, trackStops,
      ctxCloses, sent, levelCalls, cleanups, acceptedSeen, nChunks, nTicks,
      appState, pageError, interactionId, docPending, generatedDoc, requests, viewVars, codeVars, routeVars>>

\* C22: an ENDED frame invokes onEnded and nothing else; a usage frame, and a
\* flushed frame outside the flush wait of stop(), invoke no callback; none of
\* them changes a session field, sends anything or runs cleanup.
C22_EndedUsageFlushedInert ==
    [][ /\ WsMessageOf(EndedFrame) =>
              (calls' = Append(calls, [cb |-> "onEnded", arg |-> NoText])
               /\ UNCHANGED quietVars)
        /\ WsMessageOf(UsageFrame) => (calls' = calls /\ UNCHANGED quietVars)
        /\ (WsMessageOf(FlushedFrame) /\ stopPc # "waitFlush") =>
              (calls' = calls /\ UNCHANGED quietVars) ]_vars

\* ENDED was the last frame of an accepted session that goes on streaming
C22_Witness ==
    /\ calls # <<>> /\ calls[Len(calls)] = [cb |-> "onEnded", arg |-> NoText]
    /\ ChannelOpen /\ configAccepted /\ mediaRecorder # 0
    /\ stopPc = "idle" /\ cleanups = 0

\* --------------------------------------------------------------- C23
GarbageFrame == Frame(FALSE, "garbage", NoText, NoText, NoText)

\* C23: a frame that is not JSON invokes no callback and changes nothing, in
\* every phase; during the flush wait of stop() the wait goes on.
C23_NonJsonIgnored ==
    [][ WsMessageOf(GarbageFrame) => (calls' = calls /\ UNCHANGED quietVars) ]_vars

\* the flush wait is still pending after a frame that left no trace
C23_Witness ==
    /\ stopPc = "waitFlush" /\ timeout8 /\ ~resolved /\ wsOnMessage = "flushWatch"
    /\ nMsgs = 2 /\ calls = <<[cb |-> "onSessionReady", arg |-> NoText]>>

\* --------------------------------------------------------------- C24
\* C24: from the microphone grant until stop() is called or cleanup runs, a
\* tick is requested whatever the channel and configuration state are, and
\* every tick that runs reports one level and requests the next.
C24_LevelNotGated ==
    [][ /\ Tick => (levelCalls' = levelCalls + 1 /\ rafPending')
        /\ (startPc' = "started" /\ stopPc' = "idle" /\ cleanups' = 0) =>
              (rafPending' /\ analyser') ]_vars

\* a level was reported while the channel was still connecting
C24_Witness ==
    /\ levelCalls = 1 /\ wsState = "CONNECTING" /\ ~configAccepted
    /\ stopPc = "idle" /\ rafPending

\* --------------------------------------------------------------- C25
AcceptedFrame == Frame(TRUE, "CONFIG_ACCEPTED", NoText, NoText, NoText)

ReadyCall == [cb |-> "onSessionReady", arg |-> NoText]

\* C25: onSessionReady is invoked only by the step that dispatches
\* CONFIG_ACCEPTED, with configAccepted true and the session's recorder
\* recording, and the page enters the recording state only in such a step.
C25_ReadyOnlyOnAccepted ==
    [][ /\ ReadyCall \in Range(Added(calls, calls')) =>
              /\ WsMessageOf(AcceptedFrame)
              /\ Added(calls, calls') = <<ReadyCall>>
              /\ configAccepted'
              /\ mediaRecorder' # 0 /\ recState'[mediaRecorder'] = "recording"
              /\ appState' = "recording"
        /\ (appState' = "recording" /\ appState # "recording") =>
              ReadyCall \in Range(Added(calls, calls')) ]_vars

C25_Witness ==
    /\ calls = <<ReadyCall>> /\ appState = "recording"
    /\ configAccepted /\ recState = <<"recording">> /\ mediaRecorder = 1
    /\ stopPc = "idle"

\* --------------------------------------------------------------- C26
\* C26: while stop() is in progress a close event of the channel runs no
\* cleanup and reports no error.
C26_CloseInertDuringStop ==
    [][ (StopInProgress /\ TransportEvent) =>
            (cleanups' = cleanups /\ calls' = calls) ]_vars

\* --------------------------------------------------------------- C27
\* C27: a close event that finds the stopping flag false runs cleanup, whether
\* the close is clean or not and whether or not the configuration was
\* accepted; the close handler reports "Connection lost unexpectedly" exactly
\* when the close is unclean and configAccepted is true (for a failed
\* connection, after the report of the error event that precedes the close).
C27_CloseTearsDownWhenNotStopping ==
    [][ ~stopping =>
          /\ TransportEvent => (cleanups' = cleanups + 1 /\ TornDown')
          /\ WsCloseClean => calls' = calls
          /\ WsDrop => calls' = (IF configAccepted THEN Append(calls, ConnectionLost)
                                                   ELSE calls)
          /\ WsFail => calls' = (IF configAccepted
                                 THEN calls \o <<ConnectionError, ConnectionLost>>
                                 ELSE Append(calls, ConnectionError)) ]_vars

\* a clean close before any acknowledgement has torn the session down
C27_Witness ==
    /\ cleanups = 1 /\ wsState = "CLOSED" /\ wsWasOpen /\ ~acceptedSeen
    /\ calls = <<>> /\ stopPc = "idle" /\ trackStops = 1 /\ ~stream

\* --------------------------------------------------------------- C28
\* C28: once stop() has resolved the session holds no microphone stream, no
\* level task is requested and no channel is connecting or open.
C28_NothingHeldAfterStop ==
    stopPc = "resolved" =>
        /\ ~stream /\ ~analyser /\ ~audioCtx
        /\ ~rafPending
        /\ wsState \in {"none", "CLOSING", "CLOSED"}

\* --------------------------------------------------------------- C29
\* C29: once stop() has been called no MediaRecorder is created.
C29_NoRecorderAfterStop ==
    [][ stopPc # "idle" => Len(recState') = Len(recState) ]_vars

\* --------------------------------------------------------------- C30
\* C30: a session creates at most one MediaRecorder and invokes onSessionReady
\* at most once.
C30_OneRecorderOneReady ==
    /\ Len(recState) <= 1
    /\ Count(calls, ReadyCall) <= 1

\* --------------------------------------------------------------- C31
\* C31: once "end" has been sent, nothing more is sent on the channel.
C31_EndIsLast ==
    [][ "end" \in Range(sent) => sent' = sent ]_vars

\* --------------------------------------------------------------- C32
\* C32: a session whose start() failed after the microphone was acquired holds
\* no stream, no audio context and no requested level tick.
C32_FailedStartHoldsNothing ==
    startPc = "aborted" => (~stream /\ ~audioCtx /\ ~analyser /\ ~rafPending)

\* --------------------------------------------------------------- C33
\* C33: a page in the connecting state eventually shows the recording state or
\* is back in the idle state.
C33_ConnectingEnds ==
    (appState = "connecting") ~> (appState \in {"recording", "idle"})

\* --------------------------------------------------------------- C34
\* C34: a page in the stopping state eventually shows the recorded state.
C34_StoppingEnds ==
    (appState = "stopping") ~> (appState = "recorded")

\* --------------------------------------------------------------- C35
\* C35: whenever the page is in the results state a generated document is
\* present; the Generate control without an interaction id changes nothing
\* and otherwise shows the generating state; an answered document request
\* leaves the generating state for results with the document stored, a failed
\* one for recorded with the error set.
C35_ResultsHaveDocument ==
    /\ [](appState = "results" => generatedDoc)
    /\ [][ /\ (ClickGenerate /\ ~interactionId => UNCHANGED vars)
           /\ (ClickGenerate /\ interactionId => appState' = "generating")
           /\ (DocumentOk => appState = "generating" /\ appState' = "results" /\ generatedDoc')
           /\ (DocumentFail => /\ appState = "generating"
                               /\ appState' = "recorded"
                               /\ pageError' # NoText) ]_vars

C35_Witness ==
    /\ appState = "results"
    /\ generatedDoc
    /\ "/api/document" \in requests

\* --------------------------------------------------------------- C38
\* C38: after any sequence of transcript batches the transcript view is
\* ordered by ascending start time.
C38_ViewOrderedByStart ==
    \A i, j \in DOMAIN transcriptSegments :
        i < j => transcriptSegments[i].start <= transcriptSegments[j].start

\* two batches of one segment each left two segments with different start
\* times in the view
C38_Witness ==
    /\ nBatches = 2 /\ nItems = 2
    /\ Len(transcriptSegments) = 2
    /\ transcriptSegments[1].start < transcriptSegments[2].start

\* --------------------------------------------------------------- C39
\* the index of the first item of q with code string c
FirstOf(q, c) == CHOOSE i \in DOMAIN q : q[i].code = c /\ \A j \in 1..(i - 1) : q[j].code # c

\* list is q without the items whose code string occurred before in q
FirstOccurrences(list, q) ==
    /\ Len(list) = Cardinality({q[i].code : i \in DOMAIN q})
    /\ \A k \in DOMAIN list : list[k] = q[FirstOf(q, list[k].code)]
    /\ \A k, l \in DOMAIN list : k < l => FirstOf(q, list[k].code) < FirstOf(q, list[l].code)

\* C39: the predicted-code list never holds a code string twice; a successful
\* code request replaces it by the codes followed by the candidates, keeping
\* the first occurrence of every code string in that order; a failed request
\* leaves the list as it was; every settled request clears the loading flag.
C39_CodesOnce ==
    /\ [](\A i, j \in DOMAIN predictedCodes :
             predictedCodes[i].code = predictedCodes[j].code => i = j)
    /\ [][ CodesSettle =>
             /\ ~codesLoading'
             /\ LET a == codesReply.answer
                IN  IF a.kind = "ok"
                    THEN FirstOccurrences(predictedCodes',
                            (IF a.hasCodes THEN a.codes ELSE <<>>)
                            \o (IF a.hasCandidates THEN a.candidates ELSE <<>>))
                    ELSE predictedCodes' = predictedCodes ]_vars

\* a code string came in the codes and again, with another display text, in
\* the candidates: the list shows the item of the codes, then the other code
C39_Witness ==
    /\ codesReply.stage = "settled"
    /\ codesReply.answer.kind = "ok"
    /\ codesReply.answer.codes = << [code |-> "A00", display |-> "d1"] >>
    /\ codesReply.answer.candidates =
           << [code |-> "A00", display |-> "d2"], [code |-> "B01", display |-> "d1"] >>
    /\ ~codesLoading
    /\ predictedCodes = << [code |-> "A00", display |-> "d1"], [code |-> "B01", display |-> "d1"] >>

\* --------------------------------------------------------------- C36
\* some final segment of the request has text that is not blank
HasFinalText(req) ==
    /\ req.transcript.type = "array"
    /\ \E i \in DOMAIN req.transcript.items :
          /\ req.transcript.items[i].final
          /\ \E k \in DOMAIN req.transcript.items[i].transcript :
                ~IsSpace(req.transcript.items[i].transcript[k])

RECURSIVE FinalsFrom(_, _)
FinalsFrom(q, s) ==
    IF s > MaxStart
    THEN <<>>
    ELSE SelectSeq(q, LAMBDA x : x.final /\ x.start = s) \o FinalsFrom(q, s + 1)

\* the texts of q, each but the first after one space
RECURSIVE Spaced(_)
Spaced(q) ==
    IF q = <<>>
    THEN <<>>
    ELSE LET front == SubSeq(q, 1, Len(q) - 1)
         IN  Spaced(front) \o (IF front = <<>> THEN <<>> ELSE <<" ">>) \o q[Len(q)].transcript

\* cs from its first to its last character that is not a space
Stripped(cs) ==
    LET inked == {k \in DOMAIN cs : ~IsSpace(cs[k])}
    IN  SubSeq(cs, CHOOSE k \in inked : \A l \in inked : k <= l,
                   CHOOSE k \in inked : \A l \in inked : l <= k)

\* C37: the context handed to the vendor ends with the texts of exactly the
\* final segments, in ascending order of start time, joined by single spaces;
\* an additional context string that is not blank stands before it, and
\* otherwise the context is that text alone.
C37_ContextFromFinalSegments ==
    (docRequest # None /\ docResponse.vendorCall # "none") =>
        LET text == Spaced(FinalsFrom(docRequest.transcript.items, 0))
            ac == docRequest.additionalContext
        IN  IF ac.type = "string" /\ \E k \in DOMAIN ac.text : ~IsSpace(ac.text[k])
            THEN docResponse.context =
                    <<"Additional context: ">> \o Stripped(ac.text) \o <<"\n\n">> \o text
            ELSE docResponse.context = text

\* two final segments posted in descending order of start time, with an
\* additional context
C37_Witness ==
    /\ docRequest # None
    /\ docResponse.status = 200
    /\ docRequest.transcript.items =
          << [final |-> TRUE, start |-> 1, transcript |-> <<"a">>],
             [final |-> TRUE, start |-> 0, transcript |-> <<"b">>] >>
    /\ docResponse.context = <<"Additional context: ", "c", "\n\n", "b", " ", "a">>

====
